---- MODULE Spec2Model ----
(***************************************************************************)
(* Model of controllers/userController.js: the request handlers for user   *)
(* authentication, profile and address management and administrative user  *)
(* CRUD, over a User and an Address collection.                            *)
(*                                                                         *)
(* Spec      one request at a time: every handler runs from its first to   *)
(*           its last line as one action.                                  *)
(* SpecList  registerUser and getUsers over a store large enough to have   *)
(*           several pages.                                                *)
(* SpecConc  concurrent requests: a handler yields at each await, so each  *)
(*           database call is one atomic step.                             *)
(***************************************************************************)
EXTENDS Integers, Sequences, FiniteSets

VARIABLES
    users,      \* the User collection, in natural (insertion) order
    addresses,  \* the Address collection, in natural (insertion) order
    nextId,     \* the next _id the database hands out to a User
    nextAddrId, \* the next _id the database hands out to an Address
    res,        \* the response of the request that completed last
    op,         \* the handler that produced res
    procs,      \* SpecConc: the requests suspended at an await
    everAdmin   \* history: the _ids that have been stored with isAdmin = true

vars == <<users, addresses, nextId, nextAddrId, res, op, procs, everAdmin>>

(***************************************************************************)
(* Bounds of the model.                                                    *)
(***************************************************************************)
MaxDocs == 3        \* documents (Users and Addresses) ever created
MaxListDocs == 19   \* documents ever created under SpecList
MaxDigits == 2      \* length of a pageNumber query string
NumProcs == 2       \* concurrent requests under SpecConc

(***************************************************************************)
(* JavaScript values.  A request field is a string; Undefined stands for a *)
(* field the request does not carry, JsTrue and JsFalse for the JSON       *)
(* booleans.                                                               *)
(***************************************************************************)
Undefined == "#undefined"
JsTrue == "#true"
JsFalse == "#false"

\* ToBoolean: undefined, false and the empty string are falsy.
Truthy(v) == v \notin {Undefined, JsFalse, ""}

\* a || b
Or(a, b) == IF Truthy(a) THEN a ELSE b

\* An optional value (null or a document) is a sequence of length 0 or 1.
Null == <<>>
Some(d) == <<d>>
Found(o) == o # <<>>
The(o) == o[1]

Min(S) == CHOOSE m \in S : \A n \in S : m <= n

(***************************************************************************)
(* The response object.                                                    *)
(***************************************************************************)
NoCookie == -1      \* the response sets no jwt cookie
ClearedCookie == 0  \* the response sets jwt to "" with an expiry in the past
NoBody == [none |-> TRUE]

\* A fresh res: Express starts every response at status 200.
NewRes == [status |-> 200, err |-> "", body |-> NoBody, cookie |-> NoCookie]

\* res.status(s); throw new Error(m)
Throw(r, s, m) == [r EXCEPT !.status = s, !.err = m]

\* res.status(s).json(b)
Json(r, s, b) == [r EXCEPT !.status = s, !.body = b]

\* A rejected database call propagates out of the handler: no status is set.
Reject(r, m) == [r EXCEPT !.err = m]

\* generateToken(res, userId): sets the jwt cookie to a token signed for userId.
generateToken(r, userId) == [r EXCEPT !.cookie = userId]

(***************************************************************************)
(* The model layer.                                                        *)
(***************************************************************************)
\* What the User model stores for a password, and the raw value a handler assigns.
Credential(p) == [kind |-> "hash", of |-> p]
Raw(p) == [kind |-> "raw", of |-> p]

\* user.matchPassword(enteredPassword)
matchPassword(user, entered) == user.password = Credential(entered)

\* Model.findOne(filter): the first match in natural order, or null.
FirstOf(coll, I) == IF I = {} THEN Null ELSE Some(coll[Min(I)])

\* User.findOne({email})
findOneByEmail(coll, email) ==
    FirstOf(coll, {i \in 1..Len(coll) : coll[i].email = email})

\* Address.findOne({user: userId})
findOneByUser(coll, userId) ==
    FirstOf(coll, {i \in 1..Len(coll) : coll[i].user = userId})

\* Model.findById(id)
findById(coll, id) ==
    FirstOf(coll, {i \in 1..Len(coll) : coll[i]._id = id})

\* Model.countDocuments()
countDocuments(coll) == Len(coll)

\* User.create({name, email, password, phone}): isAdmin takes the schema default;
\* createdAt grows with every creation, as the _id does.
UserCreate(body, id) ==
    [_id |-> id, name |-> body.name, email |-> body.email, phone |-> body.phone,
     password |-> Credential(body.password), isAdmin |-> FALSE, createdAt |-> id]

\* Address.create({user, province, city, block, street, house})
AddressCreate(userId, body, id) ==
    [_id |-> id, user |-> userId, province |-> body.province, city |-> body.city,
     block |-> body.block, street |-> body.street, house |-> body.house]

\* The document as stored: a password assigned by the handler is hashed on save.
Stored(doc) ==
    IF "password" \in DOMAIN doc /\ doc.password.kind = "raw"
    THEN [doc EXCEPT !.password = Credential(doc.password.of)]
    ELSE doc

\* doc.save() of a document loaded as orig: writes the paths whose value changed
\* since it was loaded to the stored document with that _id.
SaveInto(stored, orig, doc) ==
    [f \in DOMAIN stored |-> IF doc[f] # orig[f] THEN Stored(doc)[f] ELSE stored[f]]

save(coll, orig, doc) ==
    [i \in 1..Len(coll) |->
        IF coll[i]._id = doc._id THEN SaveInto(coll[i], orig, doc) ELSE coll[i]]

\* Model.findByIdAndDelete(id)
RemoveAt(coll, i) == SubSeq(coll, 1, i - 1) \o SubSeq(coll, i + 1, Len(coll))

findByIdAndDelete(coll, id) ==
    LET I == {i \in 1..Len(coll) : coll[i]._id = id}
    IN  IF I = {} THEN coll ELSE RemoveAt(coll, Min(I))

\* .select("-password")
SelectNoPassword(u) == [f \in (DOMAIN u) \ {"password"} |-> u[f]]

(***************************************************************************)
(* Response bodies.                                                        *)
(***************************************************************************)
\* {_id, name, email, phone, isAdmin}
IdentityWithPhone(u) ==
    [_id |-> u._id, name |-> u.name, email |-> u.email, phone |-> u.phone,
     isAdmin |-> u.isAdmin]

\* {_id, name, email, isAdmin}
Identity(u) ==
    [_id |-> u._id, name |-> u.name, email |-> u.email, isAdmin |-> u.isAdmin]

Message(m) == [message |-> m]

(***************************************************************************)
(* The handlers' synchronous code, as functions of what the database calls *)
(* returned.                                                               *)
(***************************************************************************)
\* authUser, lines 11-25: user is the result of User.findOne({email}).
authUserRespond(user, password) ==
    IF Found(user) /\ matchPassword(The(user), password)
    THEN Json(generateToken(NewRes, The(user)._id), 200, IdentityWithPhone(The(user)))
    ELSE Throw(NewRes, 401, "Invalid email or password")

\* registerUser, lines 41-53: user is the result of User.create(...).
registerUserRespond(user) ==
    IF Found(user)
    THEN Json(generateToken(NewRes, The(user)._id), 201, IdentityWithPhone(The(user)))
    ELSE Throw(NewRes, 400, "Invalid user data")

\* Mutant: the request's name is assigned without the || fallback.
updateUserProfileAssignOverwrite(user, body) ==
    LET u == [user EXCEPT !.name = body.name,
                          !.email = Or(body.email, user.email),
                          !.phone = Or(body.phone, user.phone)]
    IN  IF Truthy(body.password)
        THEN [u EXCEPT !.password = Raw(body.password)]
        ELSE u

\* updateUserProfile, lines 92-97: the assignments to the loaded document.
updateUserProfileAssign(user, body) ==
    LET u == [user EXCEPT !.name = Or(body.name, user.name),
                          !.email = Or(body.email, user.email),
                          !.phone = Or(body.phone, user.phone)]
    IN  IF Truthy(body.password)
        THEN [u EXCEPT !.password = Raw(body.password)]
        ELSE u

\* Mutant: isAdmin is written only when the request carries it.
updateUserAssignKeepFlag(user, body) ==
    [user EXCEPT !.name = Or(body.name, user.name),
                 !.email = Or(body.email, user.email),
                 !.isAdmin = IF body.isAdmin = Undefined
                             THEN user.isAdmin
                             ELSE Truthy(body.isAdmin)]

\* updateUser, lines 196-198: the assignments to the loaded document.
updateUserAssign(user, body) ==
    [user EXCEPT !.name = Or(body.name, user.name),
                 !.email = Or(body.email, user.email),
                 !.isAdmin = Truthy(body.isAdmin)]

\* updateAddress, lines 122-126: the assignments to the loaded document.
updateAddressAssign(address, body) ==
    [address EXCEPT !.province = Or(body.province, address.province),
                    !.city = Or(body.city, address.city),
                    !.block = Or(body.block, address.block),
                    !.street = Or(body.street, address.street),
                    !.house = Or(body.house, address.house)]

\* Mutant: the administrator guard is missing.
deleteUserGuardNoAdminCheck(user) ==
    IF ~Found(user) THEN Throw(NewRes, 404, "User not found") ELSE NewRes

\* deleteUser, lines 174-182: the two guards on the loaded document; a result
\* without an error lets the handler go on to the delete.
deleteUserGuard(user) ==
    IF ~Found(user) THEN Throw(NewRes, 404, "User not found")
    ELSE IF The(user).isAdmin THEN Throw(NewRes, 400, "Cannot delete admin user")
    ELSE NewRes

\* doc.save() finds the document it was loaded from: a document that is no
\* longer stored rejects the save.
CanSave(coll, doc) == Found(findById(coll, doc._id))

(***************************************************************************)
(* getUsers: the page number and the query.                                *)
(***************************************************************************)
pageSize == 9

\* A query-string value is a sequence of characters.
Digits == <<"0", "1", "2", "3", "4", "5", "6", "7", "8", "9">>
IsDigit(c) == \E d \in 1..10 : Digits[d] = c
DigitVal(c) == (CHOOSE d \in 1..10 : Digits[d] = c) - 1

RECURSIVE Decimal(_)
Decimal(str) ==
    IF str = <<>> THEN 0
    ELSE 10 * Decimal(SubSeq(str, 1, Len(str) - 1)) + DigitVal(str[Len(str)])

AllDigits(str) == str # <<>> /\ \A i \in 1..Len(str) : IsDigit(str[i])

\* Number(v) for v undefined (Null) or a string: the empty string is 0, a
\* decimal numeral with an optional sign is its value, anything else is NaN.
NaN == [nan |-> TRUE, val |-> 0]
Num(n) == [nan |-> FALSE, val |-> n]

Number(v) ==
    IF ~Found(v) THEN NaN
    ELSE LET str == The(v)
         IN  IF str = <<>> THEN Num(0)
             ELSE IF AllDigits(str) THEN Num(Decimal(str))
             ELSE IF str[1] = "-" /\ AllDigits(Tail(str)) THEN Num(0 - Decimal(Tail(str)))
             ELSE NaN

\* Number(req.query.pageNumber) || 1: NaN and 0 are falsy.
PageOf(pageNumber) ==
    LET n == Number(pageNumber)
    IN  IF n.nan \/ n.val = 0 THEN 1 ELSE n.val

\* .sort({createdAt: -1})
RECURSIVE InsertDesc(_, _)
InsertDesc(d, sorted) ==
    IF sorted = <<>> THEN <<d>>
    ELSE IF Head(sorted).createdAt < d.createdAt THEN <<d>> \o sorted
    ELSE <<Head(sorted)>> \o InsertDesc(d, Tail(sorted))

RECURSIVE SortCreatedAtDesc(_)
SortCreatedAtDesc(coll) ==
    IF coll = <<>> THEN <<>>
    ELSE InsertDesc(coll[Len(coll)], SortCreatedAtDesc(SubSeq(coll, 1, Len(coll) - 1)))

Skip(coll, n) == SubSeq(coll, n + 1, Len(coll))
Limit(coll, n) == SubSeq(coll, 1, IF n < Len(coll) THEN n ELSE Len(coll))

\* Mutant: limit and skip applied in the order they are written.
FindPageLimitFirst(coll, page) ==
    Skip(Limit(SortCreatedAtDesc(coll), pageSize), pageSize * (page - 1))

\* The cursor of lines 146-150: the database applies sort, then skip, then
\* limit, in whichever order the query builder was called.
FindPage(coll, page) ==
    LET sorted == SortCreatedAtDesc(coll)
    IN  Limit(Skip(sorted, pageSize * (page - 1)), pageSize)

\* Math.ceil(a / b) for a >= 0, b > 0
Ceil(a, b) == (a + b - 1) \div b

\* getUsers, lines 141-152.  A negative skip is rejected by the database.
getUsersRespond(coll, pageNumber) ==
    LET page == PageOf(pageNumber)
        totalUsers == countDocuments(coll)
        found == FindPage(coll, page)
    IN  IF pageSize * (page - 1) < 0
        THEN Reject(NewRes, "skip value must be non-negative")
        ELSE Json(NewRes, 200,
                  [users |-> [i \in 1..Len(found) |-> SelectNoPassword(found[i])],
                   totalUsers |-> totalUsers,
                   page |-> page,
                   pages |-> Ceil(totalUsers, pageSize)])

(***************************************************************************)
(* Requests.                                                               *)
(***************************************************************************)
UserBody(n, e, pw, ph) == [name |-> n, email |-> e, password |-> pw, phone |-> ph]
AdminBody(n, e, a) == [name |-> n, email |-> e, isAdmin |-> a]
AddressBody(p, c, b, s, h) ==
    [province |-> p, city |-> c, block |-> b, street |-> s, house |-> h]

Emails == {"a@x", "b@x"}
Passwords == {"pw1", "pw2"}

\* POST /api/users/login
AuthBodies == [email : Emails \cup {"c@x"}, password : Passwords]

\* POST /api/users
RegisterBodies ==
    {UserBody("Ann", "a@x", "pw1", "111"),
     UserBody("Bob", "b@x", "pw2", "222")}

\* PUT /api/users/profile: no field, every field empty, every field given, some.
ProfileBodies ==
    {UserBody(Undefined, Undefined, Undefined, Undefined),
     UserBody("", "", "", ""),
     UserBody("Bob", "b@x", "pw2", "222"),
     UserBody("Bob", Undefined, "", "222")}

\* PUT /api/users/:id
AdminBodies ==
    {AdminBody(Undefined, Undefined, Undefined),
     AdminBody("Bob", "b@x", JsTrue),
     AdminBody("", "", JsFalse),
     AdminBody(Undefined, Undefined, "yes")}

\* POST /api/users/address
CreateAddressBodies == {AddressBody("p1", "c1", "b1", "s1", "h1")}

\* PUT /api/users/address: no field, every field empty, every field given, some.
UpdateAddressBodies ==
    {AddressBody(Undefined, Undefined, Undefined, Undefined, Undefined),
     AddressBody("", "", "", "", ""),
     AddressBody("p2", "c2", "b2", "s2", "h2"),
     AddressBody("p2", "", Undefined, "s2", "h2")}

\* GET /api/users?pageNumber=
PageQueries == {Null, Some(<<"2">>)}

\* :id and :userId of a route, and the _id the session middleware put in req.user
Ids == 1..MaxDocs
Callers == 1..(nextId - 1)

(***************************************************************************)
(* Initial state: a database seeded with one administrator.                *)
(***************************************************************************)
SeedAdmin ==
    [_id |-> 1, name |-> "Ann", email |-> "a@x", phone |-> "111",
     password |-> Credential("pw1"), isAdmin |-> TRUE, createdAt |-> 1]

AdminIds(coll) == {coll[i]._id : i \in {j \in 1..Len(coll) : coll[j].isAdmin}}

Idle == [pc |-> "idle"]

Init ==
    /\ users = <<SeedAdmin>>
    /\ addresses = <<>>
    /\ nextId = Len(users) + 1
    /\ nextAddrId = 1
    /\ res = NewRes
    /\ op = "none"
    /\ procs = [p \in 1..NumProcs |-> Idle]
    /\ everAdmin = AdminIds(users)

\* The end of every handler: it is recorded as the last one to respond.
Responded(name) ==
    /\ op' = name
    /\ everAdmin' = everAdmin \cup AdminIds(users')

(***************************************************************************)
(* The handlers, one request at a time.                                    *)
(***************************************************************************)
authUser(body) ==
    /\ res' = authUserRespond(findOneByEmail(users, body.email), body.password)
    /\ UNCHANGED <<users, addresses, nextId, nextAddrId, procs>>
    /\ Responded("authUser")

\* Mutant: the registration does not look the email up.
registerUserNoLookup(body) ==
    LET user == UserCreate(body, nextId)
    IN  /\ users' = Append(users, user)
        /\ nextId' = nextId + 1
        /\ res' = registerUserRespond(Some(user))
        /\ UNCHANGED <<addresses, nextAddrId, procs>>
        /\ Responded("registerUser")

\* await User.create(...) and the response, lines 39-53
registerUserCreate(body) ==
    LET user == UserCreate(body, nextId)
    IN  /\ users' = Append(users, user)
        /\ nextId' = nextId + 1
        /\ res' = registerUserRespond(Some(user))

registerUser(body) ==
    LET userExist == findOneByEmail(users, body.email)
    IN  /\ IF Found(userExist)
           THEN /\ res' = Throw(NewRes, 400, "User already exists")
                /\ UNCHANGED <<users, nextId>>
           ELSE registerUserCreate(body)
        /\ UNCHANGED <<addresses, nextAddrId, procs>>
        /\ Responded("registerUser")

logoutUser ==
    /\ res' = Json([NewRes EXCEPT !.cookie = ClearedCookie], 200,
                   Message("Logged out successfully "))
    /\ UNCHANGED <<users, addresses, nextId, nextAddrId, procs>>
    /\ Responded("logoutUser")

getUserProfile(userId) ==
    LET user == findById(users, userId)
    IN  /\ res' = IF Found(user)
                  THEN Json(NewRes, 200, Identity(The(user)))
                  ELSE Throw(NewRes, 404, "User not found")
        /\ UNCHANGED <<users, addresses, nextId, nextAddrId, procs>>
        /\ Responded("getUserProfile")

\* await user.save() and the response, lines 99-107
updateUserProfileSave(orig, doc) ==
    IF CanSave(users, doc)
    THEN /\ users' = save(users, orig, doc)
         /\ res' = Json(NewRes, 200, IdentityWithPhone(Stored(doc)))
    ELSE /\ res' = Reject(NewRes, "DocumentNotFoundError")
         /\ UNCHANGED users

updateUserProfile(userId, body) ==
    LET user == findById(users, userId)
    IN  /\ IF Found(user)
           THEN updateUserProfileSave(The(user), updateUserProfileAssign(The(user), body))
           ELSE /\ res' = Throw(NewRes, 404, "User not found")
                /\ UNCHANGED users
        /\ UNCHANGED <<addresses, nextId, nextAddrId, procs>>
        /\ Responded("updateUserProfile")

\* Mutant: an Address is created when the caller has none.
updateAddressUpsert(userId, body) ==
    LET address == findOneByUser(addresses, userId)
        doc == IF Found(address)
               THEN updateAddressAssign(The(address), body)
               ELSE AddressCreate(userId, body, nextAddrId)
    IN  /\ addresses' = IF Found(address)
                        THEN save(addresses, The(address), doc)
                        ELSE Append(addresses, doc)
        /\ nextAddrId' = IF Found(address) THEN nextAddrId ELSE nextAddrId + 1
        /\ res' = Json(NewRes, 200, doc)
        /\ UNCHANGED <<users, nextId, procs>>
        /\ Responded("updateAddress")

updateAddress(userId, body) ==
    LET address == findOneByUser(addresses, userId)
    IN  /\ IF Found(address)
           THEN LET doc == updateAddressAssign(The(address), body)
                IN  /\ addresses' = save(addresses, The(address), doc)
                    /\ res' = Json(NewRes, 200, doc)
           ELSE /\ res' = Throw(NewRes, 404, "Address not found")
                /\ UNCHANGED addresses
        /\ UNCHANGED <<users, nextId, nextAddrId, procs>>
        /\ Responded("updateAddress")

getUsers(pageNumber) ==
    /\ res' = getUsersRespond(users, pageNumber)
    /\ UNCHANGED <<users, addresses, nextId, nextAddrId, procs>>
    /\ Responded("getUsers")

getUserById(id) ==
    LET user == findById(users, id)
    IN  /\ res' = IF Found(user)
                  THEN Json(NewRes, 200, SelectNoPassword(The(user)))
                  ELSE Throw(NewRes, 404, "User not found")
        /\ UNCHANGED <<users, addresses, nextId, nextAddrId, procs>>
        /\ Responded("getUserById")

\* await User.findByIdAndDelete({_id: user._id}) and the response, lines 184-185
deleteUserDelete(user) ==
    /\ users' = findByIdAndDelete(users, user._id)
    /\ res' = Json(NewRes, 200, Message("User deleted successfully"))

deleteUser(id) ==
    LET user == findById(users, id)
        guard == deleteUserGuard(user)
    IN  /\ IF guard.err # ""
           THEN /\ res' = guard
                /\ UNCHANGED users
           ELSE deleteUserDelete(The(user))
        /\ UNCHANGED <<addresses, nextId, nextAddrId, procs>>
        /\ Responded("deleteUser")

\* await user.save() and the response, lines 200-207
updateUserSave(orig, doc) ==
    IF CanSave(users, doc)
    THEN /\ users' = save(users, orig, doc)
         /\ res' = Json(NewRes, 200, Identity(doc))
    ELSE /\ res' = Reject(NewRes, "DocumentNotFoundError")
         /\ UNCHANGED users

updateUser(id, body) ==
    LET user == findById(users, id)
    IN  /\ IF Found(user)
           THEN updateUserSave(The(user), updateUserAssign(The(user), body))
           ELSE /\ res' = Throw(NewRes, 404, "User not found")
                /\ UNCHANGED users
        /\ UNCHANGED <<addresses, nextId, nextAddrId, procs>>
        /\ Responded("updateUser")

createAddress(userId, body) ==
    LET newAddress == AddressCreate(userId, body, nextAddrId)
    IN  /\ addresses' = Append(addresses, newAddress)
        /\ nextAddrId' = nextAddrId + 1
        /\ res' = Json(NewRes, 201, newAddress)
        /\ UNCHANGED <<users, nextId, procs>>
        /\ Responded("createAddress")

getAddress(userId) ==
    LET address == findOneByUser(addresses, userId)
    IN  /\ res' = IF Found(address)
                  THEN Json(NewRes, 200, The(address))
                  ELSE Throw(NewRes, 404, "Address not found")
        /\ UNCHANGED <<users, addresses, nextId, nextAddrId, procs>>
        /\ Responded("getAddress")

\* The response has been sent: the next request starts with a fresh res.
endRequest ==
    /\ op # "none"
    /\ op' = "none"
    /\ res' = NewRes
    /\ UNCHANGED <<users, addresses, nextId, nextAddrId, procs, everAdmin>>

\* No request is being answered.
Ready == op = "none"

\* The bound on the documents ever created: a request that would create one
\* more is not taken.
DocsCreated == (nextId - 1) + (nextAddrId - 1)
WithinBound(body, max) ==
    DocsCreated < max \/ Found(findOneByEmail(users, body.email))

Next ==
    \/ \E body \in AuthBodies : Ready /\ authUser(body)
    \/ \E body \in RegisterBodies : Ready /\ WithinBound(body, MaxDocs) /\ registerUser(body)
    \/ Ready /\ logoutUser
    \/ \E userId \in Callers : Ready /\ getUserProfile(userId)
    \/ \E userId \in Callers, body \in ProfileBodies :
           Ready /\ updateUserProfile(userId, body)
    \/ \E userId \in Callers, body \in UpdateAddressBodies :
           Ready /\ updateAddress(userId, body)
    \/ \E pageNumber \in PageQueries : Ready /\ getUsers(pageNumber)
    \/ \E id \in Ids : Ready /\ getUserById(id)
    \/ \E id \in Ids : Ready /\ deleteUser(id)
    \/ \E id \in Ids, body \in AdminBodies : Ready /\ updateUser(id, body)
    \/ \E userId \in Callers, body \in CreateAddressBodies :
           Ready /\ DocsCreated < MaxDocs /\ createAddress(userId, body)
    \/ \E userId \in Ids : Ready /\ getAddress(userId)
    \/ endRequest

Spec == Init /\ [][Next]_vars

(***************************************************************************)
(* SpecList: registrations and listings over a store of several pages.     *)
(***************************************************************************)
ListEmails ==
    <<"a@x", "u02@x", "u03@x", "u04@x", "u05@x", "u06@x", "u07@x", "u08@x",
      "u09@x", "u10@x", "u11@x", "u12@x", "u13@x", "u14@x", "u15@x", "u16@x",
      "u17@x", "u18@x", "u19@x", "u20@x", "u21@x", "u22@x", "u23@x", "u24@x">>

\* A registration under the next unused address, or under the seeded one.
ListRegisterBodies ==
    {UserBody("Bob", ListEmails[i], "pw2", "222") : i \in {1, nextId} \cap DOMAIN ListEmails}

PageChars == {"0", "1", "2", "3", "a", "-"}
PageStrings == UNION {[1..k -> PageChars] : k \in 0..MaxDigits}
ListPageQueries == {Null} \cup {Some(str) : str \in PageStrings}

NextList ==
    \/ \E body \in ListRegisterBodies :
           Ready /\ WithinBound(body, MaxListDocs) /\ registerUser(body)
    \/ \E pageNumber \in ListPageQueries : Ready /\ getUsers(pageNumber)
    \/ endRequest

SpecList == Init /\ [][NextList]_vars

(***************************************************************************)
(* SpecConc: concurrent requests.  A handler runs up to its next await in  *)
(* one step; procs holds what a suspended handler keeps in its locals.     *)
(***************************************************************************)
Suspend(p, at, body, orig, doc) ==
    /\ procs' = [procs EXCEPT ![p] = [pc |-> at, body |-> body, orig |-> orig, doc |-> doc]]
    /\ UNCHANGED <<users, addresses, nextId, nextAddrId, res, op, everAdmin>>

Resume(p, at) ==
    /\ procs[p].pc = at
    /\ procs' = [procs EXCEPT ![p] = Idle]

Free(p) == procs[p].pc = "idle"

Pending(at) == Cardinality({p \in 1..NumProcs : procs[p].pc = at})

\* registerUser up to await User.create, lines 32-39
registerUserFind(p, body) ==
    /\ Free(p)
    /\ IF Found(findOneByEmail(users, body.email))
       THEN /\ res' = Throw(NewRes, 400, "User already exists")
            /\ UNCHANGED <<users, addresses, nextId, nextAddrId, procs>>
            /\ Responded("registerUser")
       ELSE Suspend(p, "create", body, Null, Null)

\* registerUser from User.create on, lines 39-53
registerUserResume(p) ==
    /\ Resume(p, "create")
    /\ registerUserCreate(procs[p].body)
    /\ UNCHANGED <<addresses, nextAddrId>>
    /\ Responded("registerUser")

\* updateUserProfile up to await user.save(), lines 89-99
updateUserProfileFind(p, userId, body) ==
    LET user == findById(users, userId)
    IN  /\ Free(p)
        /\ IF Found(user)
           THEN Suspend(p, "saveProfile", body, user,
                        Some(updateUserProfileAssign(The(user), body)))
           ELSE /\ res' = Throw(NewRes, 404, "User not found")
                /\ UNCHANGED <<users, addresses, nextId, nextAddrId, procs>>
                /\ Responded("updateUserProfile")

\* updateUserProfile from user.save() on, lines 99-107
updateUserProfileResume(p) ==
    /\ Resume(p, "saveProfile")
    /\ updateUserProfileSave(The(procs[p].orig), The(procs[p].doc))
    /\ UNCHANGED <<addresses, nextId, nextAddrId>>
    /\ Responded("updateUserProfile")

\* updateUser up to await user.save(), lines 192-200
updateUserFind(p, id, body) ==
    LET user == findById(users, id)
    IN  /\ Free(p)
        /\ IF Found(user)
           THEN Suspend(p, "saveUser", body, user,
                        Some(updateUserAssign(The(user), body)))
           ELSE /\ res' = Throw(NewRes, 404, "User not found")
                /\ UNCHANGED <<users, addresses, nextId, nextAddrId, procs>>
                /\ Responded("updateUser")

\* updateUser from user.save() on, lines 200-207
updateUserResume(p) ==
    /\ Resume(p, "saveUser")
    /\ updateUserSave(The(procs[p].orig), The(procs[p].doc))
    /\ UNCHANGED <<addresses, nextId, nextAddrId>>
    /\ Responded("updateUser")

\* deleteUser up to await User.findByIdAndDelete, lines 172-184
deleteUserFind(p, id) ==
    LET user == findById(users, id)
        guard == deleteUserGuard(user)
    IN  /\ Free(p)
        /\ IF guard.err # ""
           THEN /\ res' = guard
                /\ UNCHANGED <<users, addresses, nextId, nextAddrId, procs>>
                /\ Responded("deleteUser")
           ELSE Suspend(p, "delete", Null, user, user)

\* deleteUser from User.findByIdAndDelete on, lines 184-185
deleteUserResume(p) ==
    /\ Resume(p, "delete")
    /\ deleteUserDelete(The(procs[p].doc))
    /\ UNCHANGED <<addresses, nextId, nextAddrId>>
    /\ Responded("deleteUser")

ConcProfileBodies == {UserBody("Bob", "b@x", "pw2", "222")}
ConcAdminBodies ==
    {AdminBody(Undefined, Undefined, Undefined), AdminBody(Undefined, Undefined, JsTrue)}

NextConc ==
    \/ \E p \in 1..NumProcs, body \in RegisterBodies :
           Ready /\ WithinBound(body, MaxDocs - Pending("create")) /\ registerUserFind(p, body)
    \/ \E p \in 1..NumProcs : Ready /\ registerUserResume(p)
    \/ \E p \in 1..NumProcs, userId \in Callers, body \in ConcProfileBodies :
           Ready /\ updateUserProfileFind(p, userId, body)
    \/ \E p \in 1..NumProcs : Ready /\ updateUserProfileResume(p)
    \/ \E p \in 1..NumProcs, id \in Ids, body \in ConcAdminBodies :
           Ready /\ updateUserFind(p, id, body)
    \/ \E p \in 1..NumProcs : Ready /\ updateUserResume(p)
    \/ \E p \in 1..NumProcs, id \in Ids : Ready /\ deleteUserFind(p, id)
    \/ \E p \in 1..NumProcs : Ready /\ deleteUserResume(p)
    \/ endRequest

SpecConc == Init /\ [][NextConc]_vars

(***************************************************************************)
(* The claims.                                                             *)
(***************************************************************************)
UserIds(coll) == {coll[i]._id : i \in 1..Len(coll)}
Records(coll) == {coll[i] : i \in 1..Len(coll)}
HasEmail(coll, email) == \E i \in 1..Len(coll) : coll[i].email = email

\* A request value that is present and non-empty.
Given(v) == v # Undefined /\ v # ""

\* The value a field ends with: the request's when given, else the stored one.
Kept(requested, stored) == IF Given(requested) THEN requested ELSE stored

NotFoundRes(m) == [status |-> 404, err |-> m, body |-> NoBody, cookie |-> NoCookie]
StoresUnchanged == users' = users /\ addresses' = addresses

\* C1: registerUser with an email a stored User already has responds 400 "User
\* already exists", creates no User, changes no record and issues no token.
C1_RegisterDuplicateRejected ==
    [][op' = "registerUser" => \A body \in RegisterBodies :
          (registerUser(body) /\ HasEmail(users, body.email)) =>
              /\ res'.status = 400
              /\ res'.err = "User already exists"
              /\ res'.cookie = NoCookie
              /\ StoresUnchanged
              /\ nextId' = nextId]_vars

C1_Witness ==
    /\ op = "registerUser"
    /\ res.status = 400
    /\ res.err = "User already exists"
    /\ Len(users) = 2

\* C2: deleteUser on an administrator responds 400 and leaves every User as it
\* was; on another existing User it removes exactly that record and responds 200.
C2_DeleteGuardsAdmin ==
    [][op' = "deleteUser" => \A id \in Ids :
          deleteUser(id) =>
              \A i \in 1..Len(users) :
                  users[i]._id = id =>
                      IF users[i].isAdmin
                      THEN /\ res'.status = 400
                           /\ res'.err = "Cannot delete admin user"
                           /\ StoresUnchanged
                      ELSE /\ res'.status = 200
                           /\ res'.err = ""
                           /\ Len(users') = Len(users) - 1
                           /\ Records(users') = Records(users) \ {users[i]}
                           /\ addresses' = addresses]_vars

C2_Witness ==
    /\ op = "deleteUser"
    /\ res.status = 400
    /\ res.err = "Cannot delete admin user"
    /\ \E i \in 1..Len(users) : users[i].isAdmin
    /\ Len(users) = 2

\* C3: no two stored Users have the same email.
C3_UniqueEmail ==
    \A i, j \in 1..Len(users) : i # j => users[i].email # users[j].email

\* C4: no two stored Addresses have the same owning user.
C4_OneAddressPerUser ==
    \A i, j \in 1..Len(addresses) : i # j => addresses[i].user # addresses[j].user

\* C5: getUsers answers page p of the Users in descending order of creation:
\* positions 9(p-1)+1 .. min(9p, N), with totalUsers = N and pages = ceil(N/9);
\* a missing, zero or non-numeric pageNumber is page 1; the pages 1..pages hold
\* every User exactly once.
Rank(u) == 1 + Cardinality({j \in 1..Len(users) : users[j].createdAt > u.createdAt})

SliceLen(p, n) ==
    LET hi == IF 9 * p < n THEN 9 * p ELSE n
        lo == 9 * (p - 1)
    IN  IF hi > lo THEN hi - lo ELSE 0

PageCases ==
    {<<Null, 1>>, <<Some(<<>>), 1>>, <<Some(<<"0">>), 1>>, <<Some(<<"a">>), 1>>,
     <<Some(<<"0", "0">>), 1>>, <<Some(<<"a", "1">>), 1>>, <<Some(<<"1">>), 1>>,
     <<Some(<<"2">>), 2>>, <<Some(<<"3">>), 3>>, <<Some(<<"0", "2">>), 2>>,
     <<Some(<<"1", "2">>), 12>>, <<Some(<<"3", "0">>), 30>>}

NonNumeric(pageNumber) ==
    Found(pageNumber) /\ \E i \in 1..Len(The(pageNumber)) : The(pageNumber)[i] = "a"

Signed(pageNumber) ==
    Found(pageNumber) /\ \E i \in 1..Len(The(pageNumber)) : The(pageNumber)[i] = "-"

\* The pages p .. pages, one after the other.
RECURSIVE PagesFrom(_, _)
PagesFrom(p, pages) ==
    IF p > pages THEN <<>>
    ELSE getUsersRespond(users, Some(<<Digits[p + 1]>>)).body.users
             \o PagesFrom(p + 1, pages)

PageOnce ==
    LET all == PagesFrom(1, getUsersRespond(users, Null).body.pages)
    IN  /\ Len(all) = Len(users)
        /\ \A i \in 1..Len(users) : \E k \in 1..Len(all) : all[k]._id = users[i]._id

C5_Pagination ==
    [][/\ \A c \in PageCases :
              getUsers(c[1]) => res'.err = "" /\ res'.body.page = c[2]
       /\ (op' = "getUsers" /\ (res'.err # "" \/ res'.body.page # 1)) =>
              \A pageNumber \in ListPageQueries :
                  getUsers(pageNumber) =>
                      /\ ~NonNumeric(pageNumber)
                      /\ res'.err # "" => Signed(pageNumber)
       /\ op' = "getUsers" =>
              /\ StoresUnchanged
              /\ PageOnce
              /\ res'.err = "" =>
                    LET b == res'.body
                        n == Len(users)
                    IN  /\ res'.status = 200
                        /\ b.page >= 1
                        /\ b.totalUsers = n
                        /\ 9 * b.pages >= n
                        /\ 9 * (b.pages - 1) < n
                        /\ Len(b.users) = SliceLen(b.page, n)
                        /\ \A k \in 1..Len(b.users) :
                               \E i \in 1..Len(users) :
                                   /\ Rank(users[i]) = 9 * (b.page - 1) + k
                                   /\ b.users[k]._id = users[i]._id
                                   /\ b.users[k].email = users[i].email
                                   /\ "password" \notin DOMAIN b.users[k]]_vars

C5_Witness ==
    /\ op = "getUsers"
    /\ res.err = ""
    /\ res.body.page = 2
    /\ res.body.totalUsers = 19
    /\ res.body.pages = 3
    /\ Len(res.body.users) = 9
    /\ res.body.users[1]._id = 10

\* C6: authUser issues a token and responds 200 if and only if a User with the
\* given email exists whose password matcher accepts the given password; otherwise
\* it responds 401 "Invalid email or password" without a token, the same for an
\* unknown email and a wrong password; it changes no record.
C6_AuthIffCredentialsMatch ==
    [][op' = "authUser" => \A body \in AuthBodies :
          authUser(body) =>
              LET ok == \E i \in 1..Len(users) :
                            /\ users[i].email = body.email
                            /\ matchPassword(users[i], body.password)
              IN  /\ StoresUnchanged
                  /\ ok => /\ res'.status = 200
                           /\ res'.err = ""
                           /\ res'.cookie = res'.body._id
                           /\ res'.body.email = body.email
                  /\ ~ok => res' = [status |-> 401,
                                    err |-> "Invalid email or password",
                                    body |-> NoBody, cookie |-> NoCookie]]_vars

\* C7: a handler whose lookup finds no record sets status 404, raises its
\* not-found error and leaves both collections unchanged; updateAddress creates
\* no Address.
C7_NotFoundIs404 ==
    [][/\ op' \in {"getUserProfile", "getUserById", "deleteUser",
                   "updateUserProfile", "updateUser"} =>
              \A userId \in Ids :
                  ~(userId \in UserIds(users)) =>
                      /\ getUserProfile(userId) =>
                             res' = NotFoundRes("User not found") /\ StoresUnchanged
                      /\ getUserById(userId) =>
                             res' = NotFoundRes("User not found") /\ StoresUnchanged
                      /\ deleteUser(userId) =>
                             res' = NotFoundRes("User not found") /\ StoresUnchanged
                      /\ \A body \in ProfileBodies :
                             updateUserProfile(userId, body) =>
                                 res' = NotFoundRes("User not found") /\ StoresUnchanged
                      /\ \A body \in AdminBodies :
                             updateUser(userId, body) =>
                                 res' = NotFoundRes("User not found") /\ StoresUnchanged
       /\ op' \in {"getAddress", "updateAddress"} =>
              \A userId \in Ids :
                  ~(\E i \in 1..Len(addresses) : addresses[i].user = userId) =>
                      /\ getAddress(userId) =>
                             res' = NotFoundRes("Address not found") /\ StoresUnchanged
                      /\ \A body \in UpdateAddressBodies :
                             updateAddress(userId, body) =>
                                 res' = NotFoundRes("Address not found") /\ StoresUnchanged
      ]_vars

C7_Witness ==
    /\ op = "updateAddress"
    /\ res.status = 404
    /\ res.err = "Address not found"
    /\ Len(addresses) = 1
    /\ Len(users) = 1

\* C8: updateUserProfile gives name, email and phone the request's value when it
\* is present and non-empty and keeps the stored value otherwise, changes the
\* password only for a non-empty request password, and changes nothing else of the
\* caller's record nor any other User; updateAddress does the same for province,
\* city, block, street and house and keeps the owning user.
C8_UpdatesOnlySuppliedFields ==
    [][/\ op' = "updateUserProfile" => \A userId \in Ids, body \in ProfileBodies :
              updateUserProfile(userId, body) =>
                  /\ Len(users') = Len(users)
                  /\ addresses' = addresses
                  /\ \A i \in 1..Len(users) :
                         IF users[i]._id = userId
                         THEN /\ users'[i].name = Kept(body.name, users[i].name)
                              /\ users'[i].email = Kept(body.email, users[i].email)
                              /\ users'[i].phone = Kept(body.phone, users[i].phone)
                              /\ IF Given(body.password)
                                 THEN matchPassword(users'[i], body.password)
                                 ELSE users'[i].password = users[i].password
                              /\ users'[i].isAdmin = users[i].isAdmin
                              /\ users'[i]._id = users[i]._id
                              /\ users'[i].createdAt = users[i].createdAt
                         ELSE users'[i] = users[i]
       /\ op' = "updateAddress" => \A userId \in Ids, body \in UpdateAddressBodies :
              updateAddress(userId, body) =>
                  /\ Len(addresses') = Len(addresses)
                  /\ users' = users
                  /\ \A i \in 1..Len(addresses) :
                         /\ addresses'[i].user = addresses[i].user
                         /\ addresses'[i]._id = addresses[i]._id
                  /\ (\E i \in 1..Len(addresses) : addresses[i].user = userId) =>
                         \E i \in 1..Len(addresses) :
                             /\ addresses[i].user = userId
                             /\ \A j \in 1..Len(addresses) :
                                    j # i => addresses'[j] = addresses[j]
                             /\ addresses'[i].province = Kept(body.province, addresses[i].province)
                             /\ addresses'[i].city = Kept(body.city, addresses[i].city)
                             /\ addresses'[i].block = Kept(body.block, addresses[i].block)
                             /\ addresses'[i].street = Kept(body.street, addresses[i].street)
                             /\ addresses'[i].house = Kept(body.house, addresses[i].house)
      ]_vars

C8_Witness ==
    /\ op = "updateUserProfile"
    /\ res.status = 200
    /\ res.body.name = "Bob"
    /\ \E i \in 1..Len(users) :
           /\ users[i]._id = res.body._id
           /\ users[i].isAdmin
           /\ users[i].phone = "222"
           /\ matchPassword(users[i], "pw2")
    /\ \E i \in 1..Len(addresses) : addresses[i].city = "c2"

\* C9: a successful updateUser leaves the target's isAdmin equal to the truthiness
\* of the request's isAdmin, false when it is omitted, while an omitted name or
\* email keeps its stored value; so an account that was an administrator can be
\* removed by updateUser followed by deleteUser.
C9_UpdateUserAlwaysWritesAdminFlag ==
    [][op' = "updateUser" => \A id \in Ids, body \in AdminBodies :
          (updateUser(id, body) /\ id \in UserIds(users)) =>
              /\ res'.status = 200
              /\ Len(users') = Len(users)
              /\ \A i \in 1..Len(users) :
                     IF users[i]._id = id
                     THEN /\ users'[i].isAdmin = (body.isAdmin \in {JsTrue, "yes"})
                          /\ body.isAdmin = Undefined => ~users'[i].isAdmin
                          /\ res'.body.isAdmin = users'[i].isAdmin
                          /\ body.name = Undefined => users'[i].name = users[i].name
                          /\ body.email = Undefined => users'[i].email = users[i].email
                     ELSE users'[i] = users[i]]_vars

C9_Witness ==
    /\ op = "deleteUser"
    /\ res.status = 200
    /\ everAdmin \ UserIds(users) # {}

\* C10: under any interleaving of concurrent requests, no User is removed while
\* its stored isAdmin flag is true.
C10_NoAdminRemoved ==
    [][\A i \in 1..Len(users) :
          ~(users[i]._id \in UserIds(users')) => ~users[i].isAdmin]_vars

====
